---- MODULE Spec2Model ----
(***************************************************************************)
(* Attachment-set resources of the Autoglue Terraform provider:            *)
(* node-pool servers/taints/labels/annotations (batched attach) and        *)
(* cluster node-pools (one attach call per ID), with the pure helper       *)
(* sliceDifference they all share.                                         *)
(***************************************************************************)
EXTENDS Integers, Sequences, FiniteSets, TLC

\* ---------------------------------------------------------------- bounds
NumIDs == 3
MaxLen == 3

IdName == <<"a", "b", "c", "d", "e", "f">>
IDs == {IdName[n] : n \in 1..NumIDs}

Res == {"r1", "r2"}
Parents == {"p1", "p2"}
Kinds == {"node_pool", "cluster"}

VARIABLES
    kind,       \* which attachment resource type the instances are
    parentID,   \* r -> configured node_pool_id / cluster_id ("" = not declared)
    remote,     \* parent -> set of member IDs attached on the API side
    state,      \* r -> Terraform state of the resource (Absent or a model)
    pc,         \* r -> position of the handler in flight
    op,         \* r -> handler in flight or last finished
    plan,       \* r -> planned ID set (types.Set) of the handler in flight
    oldIDs,     \* r -> Update: the elements of the slice read from state
    toAttach,   \* r -> IDs still to attach
    toDetach,   \* r -> IDs still to detach
    diags,      \* r -> "" or the summary of the error diagnostic
    calls,      \* r -> remote requests issued by the handler in flight
    remote0,    \* r -> remote relation when the handler started
    prev,       \* r -> summary of the previous handler run (or NoPrev)
    a, b,       \* sliceDifference inputs
    onlyA, onlyB,
    dpc,        \* "in" before sliceDifference ran, "out" after
    del,        \* a cluster, server or taint resource and its Delete handler
    kube,       \* a cluster kubeconfig resource and its handlers
    single,     \* a single-valued cluster attachment and its handlers
    client      \* a provider configuration and the client built from it

vars == <<kind, parentID, remote, state, pc, op, plan, oldIDs, toAttach,
          toDetach, diags, calls, remote0, prev, a, b, onlyA, onlyB, dpc,
          del, kube, single, client>>

resVars == <<kind, parentID, remote, state, pc, op, plan, oldIDs, toAttach,
             toDetach, diags, calls, remote0, prev>>

diffVars == <<a, b, onlyA, onlyB, dpc>>

sideVars == <<del, kube, single, client>>

\* ---------------------------------------------------------------- helpers
Range(s) == {s[n] : n \in DOMAIN s}

\* every order in which the elements of S can be enumerated
RECURSIVE Orderings(_)
Orderings(S) ==
    IF S = {} THEN {<<>>}
    ELSE UNION {{<<x>> \o s : s \in Orderings(S \ {x})} : x \in S}

SeqsUpTo(S, n) == UNION {[1..m -> S] : m \in 0..n}

\* types.Set: null flag plus elements
NullSet == [null |-> TRUE, elems |-> {}]
KnownSet(S) == [null |-> FALSE, elems |-> S]

\* types.SetValueFrom: a nil slice converts to a null set
SetValueFrom(ids, isNil) == IF isNil THEN NullSet ELSE KnownSet(ids)

\* the slices stringSetToSlice can return: nil for null, else the elements
\* in the set's element order
stringSetToSlice(s) == IF s.null THEN {<<>>} ELSE Orderings(s.elems)

sliceDifference_slices(x, y) ==
    {<<SelectSeq(x, LAMBDA v : v \notin Range(y)), SelectSeq(y, LAMBDA v : v \notin Range(x))>>}

sliceDifference_swapped(x, y) ==
    LET ma == Range(x)
        mb == Range(y)
    IN  Orderings({v \in mb : v \notin ma}) \X Orderings({v \in ma : v \notin mb})

sliceDifference_all(x, y) ==
    LET ma == Range(x)
        mb == Range(y)
    IN  Orderings(ma) \X Orderings({v \in mb : v \notin ma})

sliceDifference_sameMap(x, y) ==
    LET ma == Range(x)
        mb == Range(y)
    IN  Orderings({v \in ma : v \notin mb}) \X Orderings({v \in mb : v \notin mb})

\* sliceDifference: the pairs <<onlyA, onlyB>> it can return. ma and mb are
\* the key sets of its two maps; each result slice holds the keys of one map
\* that pass the loop's test, in the order the map iteration met them
sliceDifference(x, y) ==
    LET ma == Range(x)
        mb == Range(y)
    IN  Orderings({v \in ma : v \notin mb}) \X Orderings({v \in mb : v \notin ma})

\* ---------------------------------------------------------------- state
Managed == {r \in Res : parentID[r] # ""}

Absent == [present |-> FALSE, id |-> "", parent_id |-> "", ids |-> NullSet]

NoPrev == [op |-> "none", plan |-> {}, ok |-> FALSE, sync |-> FALSE, partial |-> FALSE]

\* one request of the handler: what it asked for and how doJSON came back
Call(o, ids, out) == [op |-> o, ids |-> ids, ok |-> out = "ok", status |-> out]

\* outcomes of one doJSON call that changes the relation: a 2xx answer, a
\* 404 answer, another error answer that changed nothing, an error although
\* the API applied the request
MutateOutcomes == {"ok", "not_found", "rejected", "lost"}

\* err.Error() of a failed doJSON call, up to the response body
ErrText_generic(out) == IF out = "ok" THEN "" ELSE "autoglue API error"

ErrText(out) ==
    CASE out = "ok" -> ""
      [] out = "not_found" -> "autoglue API error 404"
      [] out = "rejected" -> "autoglue API error 500"
      [] out = "error" -> "autoglue API error 500"
      [] out = "lost" -> "perform request"

\* outcomes of one doJSON GET
ListOutcomes == {"ok", "not_found", "error"}

InitRes ==
    /\ remote \in [Parents -> SUBSET IDs]
    /\ \A p \in Parents : (\A r \in Res : parentID[r] # p) => remote[p] = {}
    /\ state = [r \in Res |-> Absent]
    /\ pc = [r \in Res |-> "idle"]
    /\ op = [r \in Res |-> "none"]
    /\ plan = [r \in Res |-> NullSet]
    /\ oldIDs = [r \in Res |-> {}]
    /\ toAttach = [r \in Res |-> <<>>]
    /\ toDetach = [r \in Res |-> <<>>]
    /\ diags = [r \in Res |-> ""]
    /\ calls = [r \in Res |-> <<>>]
    /\ remote0 = [r \in Res |-> {}]
    /\ prev = [r \in Res |-> NoPrev]

IdleDiff ==
    /\ a = <<>> /\ b = <<>> /\ onlyA = <<>> /\ onlyB = <<>> /\ dpc = "off"

\* a sub-model that a specification does not run
Off == [pc |-> "off"]

IdleSide ==
    /\ del = Off /\ kube = Off /\ single = Off /\ client = Off

Init ==
    /\ parentID = [r \in Res |-> IF r = "r1" THEN "p1" ELSE ""]
    /\ kind \in Kinds
    /\ InitRes
    /\ IdleDiff
    /\ IdleSide

\* a handler starts: its locals are fresh, and the summary of the previous
\* run is kept only by an Update that repeats an Update with the same plan
Start(r, o, p) ==
    /\ prev' = [prev EXCEPT ![r] =
                  IF o = "update" /\ @.op = "update" /\ @.plan = p.elems THEN @ ELSE NoPrev]
    /\ op' = [op EXCEPT ![r] = o]
    /\ plan' = [plan EXCEPT ![r] = p]
    /\ diags' = [diags EXCEPT ![r] = ""]
    /\ calls' = [calls EXCEPT ![r] = <<>>]
    /\ remote0' = [remote0 EXCEPT ![r] = remote[parentID[r]]]

\* the parent a POST or DELETE of the handler names in its path
CallParent_first(r) == "p1"

CallParent(r) == parentID[r]

\* the ID payload of the next attach request
AttachPayload_head(r) == IF toAttach[r] = <<>> THEN {} ELSE {Head(toAttach[r])}

AttachPayload(r) ==
    IF kind = "node_pool" THEN Range(toAttach[r]) ELSE {Head(toAttach[r])}

\* the IDs left to attach after a successful attach request
AttachRest(r) == IF kind = "node_pool" THEN <<>> ELSE Tail(toAttach[r])

\* where Update goes once nothing is left to attach
AfterAttach(o, detach) ==
    IF o = "update" /\ detach # <<>> THEN "update_detach" ELSE "relist"

\* readServersIntoModel / readNodePoolsIntoModel on a successful list:
\* the node-pool variants build ids with make (never nil) and keep the
\* model's own set should the converted set be null, the cluster variant
\* leaves ids nil when the cluster has no node pools
readIntoModel_stale(r, listed) ==
    [present |-> TRUE, id |-> parentID[r], parent_id |-> parentID[r], ids |-> state[r].ids]

readIntoModel_keepID(r, listed) ==
    [present |-> TRUE, id |-> state[r].id, parent_id |-> parentID[r],
     ids |-> SetValueFrom(listed, kind = "cluster" /\ listed = {})]

readIntoModel_filtered(r, listed) ==
    [present |-> TRUE, id |-> parentID[r], parent_id |-> parentID[r],
     ids |-> KnownSet(listed \cap plan[r].elems)]

readIntoModel_planned(r, listed) ==
    [present |-> TRUE, id |-> parentID[r], parent_id |-> parentID[r], ids |-> plan[r]]

readIntoModel(r, listed) ==
    LET setVal == SetValueFrom(listed, kind = "cluster" /\ listed = {})
        modelIDs == IF op[r] \in {"create", "update"} THEN plan[r] ELSE state[r].ids
    IN  [present |-> TRUE, id |-> parentID[r], parent_id |-> parentID[r],
         ids |-> IF kind = "node_pool" /\ setVal.null THEN modelIDs ELSE setVal]

\* ---------------------------------------------------------------- handlers
\* Create up to its first remote call
CreateBegin(r) ==
    /\ r \in Managed /\ pc[r] = "idle" /\ ~state[r].present
    /\ \E planned \in SUBSET IDs :
       \E ids \in stringSetToSlice(KnownSet(planned)) :
          /\ Start(r, "create", KnownSet(planned))
          /\ toAttach' = [toAttach EXCEPT ![r] = ids]
          /\ pc' = [pc EXCEPT ![r] =
                      IF kind = "cluster" /\ ids = <<>> THEN "relist" ELSE "create_attach"]
    /\ oldIDs' = [oldIDs EXCEPT ![r] = {}]
    /\ toDetach' = [toDetach EXCEPT ![r] = <<>>]
    /\ UNCHANGED <<kind, parentID, remote, state, diffVars, sideVars>>

\* the slice Update diffs the plan against
UpdateOldIDs_listed(r) == Orderings(remote[parentID[r]])

UpdateOldIDs(r) == stringSetToSlice(state[r].ids)

\* the first remote call of Update, d being <<toDetach, toAttach>>
UpdateFirst_detachFirst(d) ==
    IF d[1] # <<>> THEN "update_detach"
    ELSE IF Len(d[2]) > 0 THEN "update_attach" ELSE "relist"

UpdateFirst(d) ==
    IF Len(d[2]) > 0 THEN "update_attach" ELSE AfterAttach("update", d[1])

\* what an Update waits for before it starts: the handler takes no lock and
\* consults no other handler
MayStart_locked(r) ==
    \A q \in Res \ {r} : parentID[q] = parentID[r] => pc[q] \in {"idle", "done"}

MayStart(r) == TRUE

\* Update up to its first remote call, the plan naming IDs of U
UpdateFrom(r, U) ==
    /\ r \in Managed /\ pc[r] = "idle" /\ state[r].present
    /\ MayStart(r)
    /\ \E planned \in SUBSET U :
       \E old \in UpdateOldIDs(r), new \in stringSetToSlice(KnownSet(planned)) :
       \E d \in sliceDifference(old, new) :
          /\ Start(r, "update", KnownSet(planned))
          /\ oldIDs' = [oldIDs EXCEPT ![r] = Range(old)]
          /\ toDetach' = [toDetach EXCEPT ![r] = d[1]]
          /\ toAttach' = [toAttach EXCEPT ![r] = d[2]]
          /\ pc' = [pc EXCEPT ![r] = UpdateFirst(d)]
    /\ UNCHANGED <<kind, parentID, remote, state, diffVars, sideVars>>

UpdateBegin(r) == UpdateFrom(r, IDs)

\* the state a handler leaves when it returns on an error: no State.Set
StateOnError_absent(r) == Absent

StateOnError_planned(r) ==
    [present |-> TRUE, id |-> parentID[r], parent_id |-> parentID[r], ids |-> plan[r]]

StateOnError(r) == state[r]

\* where Create and Update go after a failed POST
AttachFail_continue(r) == AfterAttach(op[r], toDetach[r])

AttachFail_retry(r) == pc[r]

AttachFail(r) == "done"

\* one POST of Create or Update and the code up to the next remote call
AttachCall(r) ==
    /\ r \in Managed /\ pc[r] \in {"create_attach", "update_attach"}
    /\ \E out \in MutateOutcomes :
          /\ calls' = [calls EXCEPT ![r] = Append(@, Call("attach", AttachPayload(r), out))]
          /\ remote' = IF out \in {"rejected", "not_found"} THEN remote
                       ELSE [remote EXCEPT ![CallParent(r)] = @ \cup AttachPayload(r)]
          /\ IF out = "ok"
             THEN /\ toAttach' = [toAttach EXCEPT ![r] = AttachRest(r)]
                  /\ pc' = [pc EXCEPT ![r] =
                              IF AttachRest(r) # <<>> THEN @ ELSE AfterAttach(op[r], toDetach[r])]
                  /\ diags' = diags
                  /\ state' = state
             ELSE /\ diags' = [diags EXCEPT ![r] = "Error attaching"]
                  /\ pc' = [pc EXCEPT ![r] = AttachFail(r)]
                  /\ toAttach' = toAttach
                  /\ state' = [state EXCEPT ![r] = StateOnError(r)]
    /\ UNCHANGED <<kind, parentID, op, plan, oldIDs, toDetach, remote0, prev, diffVars, sideVars>>

\* what the detach loop does after a failed DELETE request
DetachStop_continue(r) == IF Len(toDetach[r]) > 1 THEN pc[r] ELSE "done"

DetachStop(r) == "done"

\* the IDs the detach loop still has to visit after this one
DetachRest_none(r) == <<>>

DetachRest(r) == Tail(toDetach[r])

\* one DELETE of Update or Delete and the code up to the next remote call
DetachCall(r) ==
    /\ r \in Managed /\ pc[r] \in {"update_detach", "delete_detach"}
    /\ LET id == Head(toDetach[r])
           rest == DetachRest(r)
       IN \E out \in MutateOutcomes :
          /\ calls' = [calls EXCEPT ![r] = Append(@, Call("detach", {id}, out))]
          /\ remote' = IF out \in {"rejected", "not_found"} THEN remote
                       ELSE [remote EXCEPT ![CallParent(r)] = @ \ {id}]
          /\ toDetach' = [toDetach EXCEPT ![r] = rest]
          /\ IF out = "ok"
             THEN /\ diags' = diags
                  /\ IF rest # <<>>
                     THEN UNCHANGED <<pc, state>>
                     ELSE IF op[r] = "update"
                          THEN /\ pc' = [pc EXCEPT ![r] = "relist"]
                               /\ state' = state
                          ELSE /\ pc' = [pc EXCEPT ![r] = "done"]
                               /\ state' = [state EXCEPT ![r] = Absent]
             ELSE /\ diags' = [diags EXCEPT ![r] = "Error detaching"]
                  /\ pc' = [pc EXCEPT ![r] = DetachStop(r)]
                  /\ state' = [state EXCEPT ![r] = StateOnError(r)]
    /\ UNCHANGED <<kind, parentID, op, plan, oldIDs, toAttach, remote0, prev, diffVars, sideVars>>

\* the GET that ends Create and Update, and State.Set
Relist(r) ==
    /\ r \in Managed /\ pc[r] = "relist"
    /\ \E out \in ListOutcomes :
          /\ calls' = [calls EXCEPT ![r] = Append(@, Call("list", remote[parentID[r]], out))]
          /\ IF out = "ok"
             THEN /\ state' = [state EXCEPT ![r] = readIntoModel(r, remote[parentID[r]])]
                  /\ diags' = diags
             ELSE /\ diags' = [diags EXCEPT ![r] = "Error reading"]
                  /\ state' = [state EXCEPT ![r] = StateOnError(r)]
    /\ pc' = [pc EXCEPT ![r] = "done"]
    /\ UNCHANGED <<kind, parentID, remote, op, plan, oldIDs, toAttach, toDetach,
                   remote0, prev, diffVars, sideVars>>

\* isNotFound(err): whether the error of a call says the parent is missing
isNotFound(out) == out = "not_found"

\* whether Read answers a failed list by removing the resource from state
ReadDrops_any(out) == out # "ok"

ReadDrops(out) == IF kind = "cluster" THEN out # "ok" ELSE isNotFound(out)

\* Read: one GET, then State.Set, RemoveResource or an error
Read(r) ==
    /\ r \in Managed /\ pc[r] = "idle" /\ state[r].present
    /\ op' = [op EXCEPT ![r] = "read"]
    /\ plan' = [plan EXCEPT ![r] = NullSet]
    /\ remote0' = [remote0 EXCEPT ![r] = remote[parentID[r]]]
    /\ prev' = [prev EXCEPT ![r] = NoPrev]
    /\ \E out \in ListOutcomes :
          /\ calls' = [calls EXCEPT ![r] = <<Call("list", remote[parentID[r]], out)>>]
          /\ IF out = "ok"
             THEN /\ state' = [state EXCEPT ![r] = readIntoModel(r, remote[parentID[r]])]
                  /\ diags' = [diags EXCEPT ![r] = ""]
             ELSE IF ReadDrops(out)
                  THEN /\ state' = [state EXCEPT ![r] = Absent]
                       /\ diags' = [diags EXCEPT ![r] = ""]
                  ELSE /\ state' = state
                       /\ diags' = [diags EXCEPT ![r] = "Error reading"]
    /\ pc' = [pc EXCEPT ![r] = "done"]
    /\ oldIDs' = [oldIDs EXCEPT ![r] = {}]
    /\ toAttach' = [toAttach EXCEPT ![r] = <<>>]
    /\ toDetach' = [toDetach EXCEPT ![r] = <<>>]
    /\ UNCHANGED <<kind, parentID, remote, diffVars, sideVars>>

\* Delete up to its first remote call
DeleteBegin(r) ==
    /\ r \in Managed /\ pc[r] = "idle" /\ state[r].present
    /\ Start(r, "delete", NullSet)
    /\ \E ids \in stringSetToSlice(state[r].ids) :
          /\ toDetach' = [toDetach EXCEPT ![r] = ids]
          /\ IF ids = <<>>
             THEN /\ pc' = [pc EXCEPT ![r] = "done"]
                  /\ state' = [state EXCEPT ![r] = Absent]
             ELSE /\ pc' = [pc EXCEPT ![r] = "delete_detach"]
                  /\ state' = state
    /\ oldIDs' = [oldIDs EXCEPT ![r] = {}]
    /\ toAttach' = [toAttach EXCEPT ![r] = <<>>]
    /\ UNCHANGED <<kind, parentID, remote, diffVars, sideVars>>

\* what the next run needs to know of the run that ends: for an Update its
\* plan, whether it succeeded, whether the stored IDs matched the remote
\* relation when it started, and whether it failed after a successful call
Summary(r) ==
    IF op[r] # "update" THEN [NoPrev EXCEPT !.op = op[r]]
    ELSE [op |-> "update", plan |-> plan[r].elems,
          ok |-> diags[r] = "",
          sync |-> oldIDs[r] = remote0[r],
          partial |-> diags[r] # "" /\ \E n \in DOMAIN calls[r] : calls[r][n].ok]

\* the handler returns; the summary of the run is what the next run follows
Respond(r) ==
    /\ r \in Managed /\ pc[r] = "done"
    /\ pc' = [pc EXCEPT ![r] = "idle"]
    /\ prev' = [prev EXCEPT ![r] = Summary(r)]
    /\ op' = [op EXCEPT ![r] = "none"]
    /\ plan' = [plan EXCEPT ![r] = NullSet]
    /\ oldIDs' = [oldIDs EXCEPT ![r] = {}]
    /\ toAttach' = [toAttach EXCEPT ![r] = <<>>]
    /\ toDetach' = [toDetach EXCEPT ![r] = <<>>]
    /\ diags' = [diags EXCEPT ![r] = ""]
    /\ calls' = [calls EXCEPT ![r] = <<>>]
    /\ remote0' = [remote0 EXCEPT ![r] = {}]
    /\ UNCHANGED <<kind, parentID, remote, state, diffVars, sideVars>>

\* somebody else changes the relation of parent p while no handler runs on it
External(p) ==
    /\ \E r \in Managed : parentID[r] = p
    /\ \A r \in Managed : parentID[r] = p => pc[r] = "idle"
    /\ \E S \in SUBSET IDs :
          /\ S # remote[p]
          /\ remote' = [remote EXCEPT ![p] = S]
    /\ prev' = [r \in Res |-> IF parentID[r] = p THEN NoPrev ELSE prev[r]]
    /\ UNCHANGED <<kind, parentID, state, pc, op, plan, oldIDs, toAttach, toDetach,
                   diags, calls, remote0, diffVars, sideVars>>

Next ==
    \/ \E r \in Res : CreateBegin(r)
    \/ \E r \in Res : UpdateBegin(r)
    \/ \E r \in Res : AttachCall(r)
    \/ \E r \in Res : DetachCall(r)
    \/ \E r \in Res : Relist(r)
    \/ \E r \in Res : Read(r)
    \/ \E r \in Res : DeleteBegin(r)
    \/ \E r \in Res : Respond(r)
    \/ \E p \in Parents : External(p)

Spec == Init /\ [][Next]_vars

\* ---------------------------------------------------------------- sliceDifference alone
InitDiff ==
    /\ parentID = [r \in Res |-> ""]
    /\ kind = "node_pool"
    /\ InitRes
    /\ a \in SeqsUpTo(IDs, MaxLen)
    /\ b \in SeqsUpTo(IDs, MaxLen)
    /\ onlyA = <<>> /\ onlyB = <<>>
    /\ dpc = "in"
    /\ IdleSide

RunDiff ==
    /\ dpc = "in"
    /\ \E d \in sliceDifference(a, b) :
          /\ onlyA' = d[1]
          /\ onlyB' = d[2]
    /\ dpc' = "out"
    /\ UNCHANGED <<a, b, resVars, sideVars>>

NextDiff == RunDiff

SpecDiff == InitDiff /\ [][NextDiff]_vars

\* ---------------------------------------------------------------- claims
Attaches(r) == {n \in DOMAIN calls[r] : calls[r][n].op = "attach"}
Detaches(r) == {n \in DOMAIN calls[r] : calls[r][n].op = "detach"}
Lists(r) == {n \in DOMAIN calls[r] : calls[r][n].op = "list"}
Desired(r) == plan[r].elems
UpdateOk(r) == op[r] = "update" /\ pc[r] = "done" /\ diags[r] = ""

\* C1: for the ID sets A and B of the two input slices, sliceDifference
\* returns toDetach = A \ B and toAttach = B \ A, toDetach disjoint from B,
\* toAttach disjoint from A, (A \ toDetach) \cup toAttach = B; both are empty
\* when A = B, toAttach = B when A is empty, toDetach = A when B is empty.
C1_DiffCorrect ==
    dpc = "out" =>
        LET A == Range(a)
            B == Range(b)
            dt == Range(onlyA)
            at == Range(onlyB)
        IN  /\ dt = A \ B
            /\ at = B \ A
            /\ dt \cap B = {}
            /\ at \cap A = {}
            /\ (A \ dt) \cup at = B
            /\ (A = B => onlyA = <<>> /\ onlyB = <<>>)
            /\ (A = {} => at = B /\ onlyA = <<>>)
            /\ (B = {} => dt = A /\ onlyB = <<>>)

C1_Witness ==
    /\ dpc = "out"
    /\ onlyA # <<>> /\ onlyB # <<>>
    /\ Range(a) \cap Range(b) # {}

\* C2 as stated: an Update that completes without error (no external
\* mutation during the call) leaves the remote relation of its parent equal
\* to the desired set, whatever the remote relation was when it started.
C2_UpdateAlwaysReachesDesired ==
    \A r \in Res : UpdateOk(r) => remote[parentID[r]] = Desired(r)

\* C2 amended: an Update that completes without error leaves the remote
\* relation equal to the desired set provided the ID set stored in state
\* equalled the remote relation when the Update started.
C2_UpdateReachesDesiredFromSync ==
    \A r \in Res :
        (UpdateOk(r) /\ oldIDs[r] = remote0[r]) => remote[parentID[r]] = Desired(r)

C2_Witness ==
    \E r \in Res :
        /\ UpdateOk(r) /\ oldIDs[r] = remote0[r]
        /\ Attaches(r) # {} /\ Detaches(r) # {}
        /\ remote[parentID[r]] = Desired(r)

\* C3 as stated: the current set an Update diffs against is the answer of a
\* list call of that same Update, made before any attach or detach call.
C3_CurrentIsFreshList ==
    \A r \in Res :
        (op[r] = "update" /\ Attaches(r) \cup Detaches(r) # {}) =>
            /\ calls[r][1].op = "list"
            /\ calls[r][1].ok
            /\ calls[r][1].ids = oldIDs[r]

\* C3 amended: the current set an Update diffs against is the ID set held in
\* Terraform state when the Update starts; the Update makes no list call
\* before its attach and detach calls, its only list call is the last call.
C3_CurrentIsStoredState ==
    \A r \in Res :
        op[r] = "update" =>
            /\ (~(pc[r] = "done" /\ diags[r] = "") => oldIDs[r] = state[r].ids.elems)
            /\ \A n \in Lists(r) : n = Len(calls[r]) /\ pc[r] = "done"
            /\ \A n \in Attaches(r) : calls[r][n].ids \subseteq Desired(r) \ oldIDs[r]
            /\ (pc[r] = "update_attach" => Range(toAttach[r]) \subseteq Desired(r) \ oldIDs[r])

C3_Witness ==
    \E r \in Res :
        /\ op[r] = "update" /\ pc[r] = "update_detach"
        /\ oldIDs[r] # remote0[r]
        /\ Attaches(r) # {}

\* C4 as stated, current being the remote relation the reconciliation
\* starts from: attach calls name only IDs of desired \ current, detach calls
\* only IDs of current \ desired, and with current = desired no attach and
\* no detach call is issued.
C4_NoRedundantCallsAgainstRemote ==
    \A r \in Res :
        op[r] = "update" =>
            /\ \A n \in Attaches(r) : calls[r][n].ids \subseteq Desired(r) \ remote0[r]
            /\ \A n \in Detaches(r) : calls[r][n].ids \subseteq remote0[r] \ Desired(r)
            /\ (remote0[r] = Desired(r) => Attaches(r) \cup Detaches(r) = {})

\* C4 amended: with current the ID set stored in Terraform state when the
\* Update starts, attach calls name only IDs of desired \ current, detach
\* calls only IDs of current \ desired, no call names an ID of both sets, and
\* with current = desired no attach and no detach call is issued.
C4_NoRedundantCallsAgainstState ==
    \A r \in Res :
        op[r] = "update" =>
            /\ \A n \in Attaches(r) : calls[r][n].ids \subseteq Desired(r) \ oldIDs[r]
            /\ \A n \in Detaches(r) : calls[r][n].ids \subseteq oldIDs[r] \ Desired(r)
            /\ \A n \in Attaches(r) \cup Detaches(r) :
                  calls[r][n].ids \cap (oldIDs[r] \cap Desired(r)) = {}
            /\ (oldIDs[r] = Desired(r) => Attaches(r) \cup Detaches(r) = {})

C4_Witness ==
    \E r \in Res :
        /\ UpdateOk(r)
        /\ oldIDs[r] \cap Desired(r) # {}
        /\ Attaches(r) # {} /\ Detaches(r) # {}

\* C5 as stated: for every attachment relation, cluster node-pools included,
\* an Update with a non-empty toAttach issues exactly one attach call, and
\* that call carries all IDs of toAttach.
C5_OneBatchedAttachEveryRelation ==
    \A r \in Res :
        (UpdateOk(r) /\ Desired(r) \ oldIDs[r] # {}) =>
            /\ Cardinality(Attaches(r)) = 1
            /\ \A n \in Attaches(r) : calls[r][n].ids = Desired(r) \ oldIDs[r]

\* C5 amended: for the node-pool relations (servers, taints, labels,
\* annotations) an Update with a non-empty toAttach issues exactly one attach
\* call carrying all IDs of toAttach; for cluster node-pools it issues one
\* attach call per ID of toAttach, each carrying that single ID.
C5_AttachBatchedPerRelation ==
    \A r \in Res :
        (UpdateOk(r) /\ Desired(r) \ oldIDs[r] # {}) =>
            IF kind = "node_pool"
            THEN /\ Cardinality(Attaches(r)) = 1
                 /\ \A n \in Attaches(r) : calls[r][n].ids = Desired(r) \ oldIDs[r]
            ELSE /\ Cardinality(Attaches(r)) = Cardinality(Desired(r) \ oldIDs[r])
                 /\ \A n \in Attaches(r) : Cardinality(calls[r][n].ids) = 1
                 /\ UNION {calls[r][n].ids : n \in Attaches(r)} = Desired(r) \ oldIDs[r]

C5_Witness ==
    \E r \in Res :
        /\ UpdateOk(r) /\ kind = "node_pool"
        /\ Cardinality(Desired(r) \ oldIDs[r]) >= 2
        /\ Cardinality(Attaches(r)) = 1

\* C6: when an attach call of an Update fails, the Update ends there with an
\* error: the failed attach is its last remote call and it issues no detach
\* call.
C6_AttachFailureStopsBeforeDetach ==
    \A r \in Res :
        op[r] = "update" =>
            \A n \in Attaches(r) :
                ~calls[r][n].ok =>
                    /\ n = Len(calls[r])
                    /\ pc[r] = "done"
                    /\ diags[r] # ""
                    /\ Detaches(r) = {}

C6_Witness ==
    \E r \in Res :
        /\ op[r] = "update" /\ pc[r] = "done"
        /\ \E n \in Attaches(r) : ~calls[r][n].ok
        /\ oldIDs[r] \ Desired(r) # {}

\* C7: when a detach call of an Update fails, the Update ends there with an
\* error: the failed detach is its last remote call, no detach is issued for
\* the IDs that remain, and the IDs detached before it stay detached.
C7_DetachFailureIsFailFast ==
    \A r \in Res :
        op[r] = "update" =>
            \A n \in Detaches(r) :
                ~calls[r][n].ok =>
                    /\ n = Len(calls[r])
                    /\ pc[r] = "done"
                    /\ diags[r] # ""
                    /\ \A m \in Detaches(r) :
                          m < n => /\ calls[r][m].ok
                                   /\ calls[r][m].ids \cap remote[parentID[r]] = {}
                    /\ \A id \in Range(toDetach[r]) :
                          \A m \in Detaches(r) : id \notin calls[r][m].ids

C7_Witness ==
    \E r \in Res :
        /\ op[r] = "update" /\ pc[r] = "done"
        /\ \E n \in Detaches(r) : ~calls[r][n].ok /\ n > 1 /\ calls[r][n - 1].op = "detach"
        /\ toDetach[r] # <<>>

\* an Update that re-runs the Update before it, with the same desired set
Retries(r) == op[r] = "update" /\ prev[r].op = "update" /\ prev[r].plan = Desired(r)

\* C8 as stated: after an Update failed part-way, re-running it with the same
\* desired set, every remote call now succeeding, ends with the remote
\* relation equal to the desired set.
C8_RetryAlwaysReachesDesired ==
    \A r \in Res :
        (Retries(r) /\ prev[r].partial /\ UpdateOk(r)) =>
            remote[parentID[r]] = Desired(r)

\* C8 amended: after an Update failed part-way, re-running it with the same
\* desired set, every remote call now succeeding, ends with the remote
\* relation equal to the desired set provided the ID set stored in state
\* equalled the remote relation when the failed Update started. The re-run
\* diffs against the unchanged stored set, as the failed run did.
C8_RetryReachesDesiredFromSync ==
    \A r \in Res :
        (Retries(r) /\ prev[r].partial /\ prev[r].sync) =>
            /\ (~UpdateOk(r) => oldIDs[r] = state[r].ids.elems)
            /\ (UpdateOk(r) => remote[parentID[r]] = Desired(r))

C8_Witness ==
    \E r \in Res :
        /\ Retries(r) /\ prev[r].partial /\ prev[r].sync /\ UpdateOk(r)
        /\ oldIDs[r] # remote0[r]
        /\ Attaches(r) # {} /\ Detaches(r) # {}

\* C9 as stated: an Update that directly follows a successful Update with the
\* same desired set, with no external mutation in between, computes empty
\* toAttach and toDetach and issues no attach or detach call.
C9_SecondRunAlwaysNoOp ==
    \A r \in Res :
        (Retries(r) /\ prev[r].ok) =>
            /\ Desired(r) \ oldIDs[r] = {} /\ oldIDs[r] \ Desired(r) = {}
            /\ toAttach[r] = <<>> /\ toDetach[r] = <<>>
            /\ Attaches(r) \cup Detaches(r) = {}

\* C9 amended: an Update that directly follows a successful Update with the
\* same desired set, with no external mutation in between, computes empty
\* toAttach and toDetach and issues no attach or detach call, provided the ID
\* set stored in state equalled the remote relation when the first Update
\* started.
C9_SecondRunNoOpFromSync ==
    \A r \in Res :
        (Retries(r) /\ prev[r].ok /\ prev[r].sync) =>
            /\ Desired(r) \ oldIDs[r] = {} /\ oldIDs[r] \ Desired(r) = {}
            /\ toAttach[r] = <<>> /\ toDetach[r] = <<>>
            /\ Attaches(r) \cup Detaches(r) = {}

C9_Witness ==
    \E r \in Res :
        /\ Retries(r) /\ prev[r].ok /\ prev[r].sync /\ UpdateOk(r)
        /\ Desired(r) # {}
        /\ Len(calls[r]) = 1

\* C10: after a successful Create or Update the ID set in state is the answer
\* of the list call that is the last remote call of the operation, made
\* after every attach and detach call; it is not the planned set.
C10_StateIsRelistedSet ==
    \A r \in Res :
        (op[r] \in {"create", "update"} /\ pc[r] = "done" /\ diags[r] = "") =>
            /\ calls[r] # <<>>
            /\ LET last == calls[r][Len(calls[r])]
               IN  /\ last.op = "list" /\ last.ok
                   /\ state[r].present
                   /\ state[r].ids.elems = last.ids
                   /\ last.ids = remote[parentID[r]]
            /\ \A n \in Attaches(r) \cup Detaches(r) : n < Len(calls[r])

C10_Witness ==
    \E r \in Res :
        /\ op[r] = "create" /\ pc[r] = "done" /\ diags[r] = ""
        /\ state[r].ids.elems # Desired(r)
        /\ Attaches(r) # {}

\* C11 as stated: the remote calls of one Update come in the order list,
\* attach, detach calls one after another, re-list: the first call is a
\* list, no detach precedes an attach, the last call of a successful Update
\* is a list that follows the last attach or detach.
C11_ListAttachDetachRelist ==
    \A r \in Res :
        (op[r] = "update" /\ calls[r] # <<>>) =>
            /\ calls[r][1].op = "list"
            /\ \A m \in Detaches(r) : \A n \in Attaches(r) : n < m
            /\ (UpdateOk(r) =>
                   /\ Len(calls[r]) >= 2
                   /\ calls[r][Len(calls[r])].op = "list")

\* C11 amended: the remote calls of one Update come in the order attach
\* call(s), detach calls one after another, re-list, with no list before them:
\* every attach call precedes every detach call, all IDs of toAttach are
\* attached before the first detach call, the only list call is the last
\* call, a successful Update ends with it, and a call is issued only after
\* every call before it has returned without error.
C11_AttachDetachRelist ==
    \A r \in Res :
        op[r] = "update" =>
            /\ \A m \in Detaches(r) : \A n \in Attaches(r) : n < m
            /\ (Detaches(r) # {} =>
                   UNION {calls[r][n].ids : n \in Attaches(r)} = Desired(r) \ oldIDs[r])
            /\ \A n \in Lists(r) : n = Len(calls[r]) /\ pc[r] = "done"
            /\ (UpdateOk(r) => Cardinality(Lists(r)) = 1)
            /\ (pc[r] \in {"update_attach", "update_detach", "relist"} =>
                   \A n \in DOMAIN calls[r] : calls[r][n].ok)

C11_Witness ==
    \E r \in Res :
        /\ UpdateOk(r)
        /\ Attaches(r) # {}
        /\ Cardinality(Detaches(r)) >= 2
        /\ calls[r][Len(calls[r])].op = "list"

\* the detail of the diagnostic a handler reports: err.Error() of the call
\* that failed
ErrorDetail(r) ==
    IF diags[r] = "" THEN "" ELSE ErrText(calls[r][Len(calls[r])].status)

\* C12 as stated: an Update in which the remote reports the parent as
\* missing reports a not-found error that differs from every other error and
\* has issued no attach and no detach call.
C12_NotFoundBeforeAnyMutation ==
    \A r \in Res :
        (op[r] = "update" /\ \E n \in DOMAIN calls[r] : calls[r][n].status = "not_found") =>
            /\ diags[r] # ""
            /\ \A o \in (MutateOutcomes \cup ListOutcomes) \ {"not_found"} :
                  ErrText(o) # ErrorDetail(r)
            /\ Attaches(r) \cup Detaches(r) = {}

\* C12 amended: an Update lists only at its end, so the remote reports a
\* missing parent in the answer to an attach or detach call (to the re-list
\* when there is nothing to attach or detach); the Update stops at that call,
\* issues no call after it, and reports an error whose text carries the
\* status 404 and so differs from the text of every other failure; when the
\* first call is the one answered 404 the relation is left as it was.
C12_NotFoundStopsAtFirstAnswer ==
    \A r \in Res :
        op[r] = "update" =>
            \A n \in DOMAIN calls[r] :
                calls[r][n].status = "not_found" =>
                    /\ n = Len(calls[r])
                    /\ pc[r] = "done"
                    /\ diags[r] # ""
                    /\ ErrorDetail(r) = ErrText("not_found")
                    /\ \A o \in (MutateOutcomes \cup ListOutcomes) \ {"not_found"} :
                          ErrText(o) # ErrorDetail(r)
                    /\ (n = 1 => remote[parentID[r]] = remote0[r])

C12_Witness ==
    \E r \in Res :
        /\ op[r] = "update" /\ pc[r] = "done"
        /\ calls[r] # <<>>
        /\ calls[r][1].op = "attach" /\ calls[r][1].status = "not_found"
        /\ oldIDs[r] \ Desired(r) # {}

\* C13: whenever a remote call of a handler fails by transport, by a status
\* other than 404 or by a malformed answer, the handler ends with an error
\* diagnostic: the failure is neither dropped nor turned into a change of
\* state without an error.
C13_EveryRemoteErrorIsReported ==
    \A r \in Res :
        pc[r] = "done" =>
            \A n \in DOMAIN calls[r] :
                calls[r][n].status \in {"rejected", "lost", "error"} => diags[r] # ""

\* C14: an Update that completes without error has issued exactly one detach
\* call for each ID of toDetach: as many detach calls as toDetach has IDs
\* (none when it is empty), each naming exactly one ID, no ID named twice.
C14_OneDetachCallPerID ==
    \A r \in Res :
        UpdateOk(r) =>
            /\ Cardinality(Detaches(r)) = Cardinality(oldIDs[r] \ Desired(r))
            /\ \A n \in Detaches(r) : Cardinality(calls[r][n].ids) = 1
            /\ UNION {calls[r][n].ids : n \in Detaches(r)} = oldIDs[r] \ Desired(r)
            /\ \A m, n \in Detaches(r) : calls[r][m].ids = calls[r][n].ids => m = n

C14_Witness ==
    \E r \in Res :
        /\ UpdateOk(r)
        /\ Cardinality(oldIDs[r] \ Desired(r)) >= 2
        /\ Cardinality(Detaches(r)) = Cardinality(oldIDs[r] \ Desired(r))
        /\ oldIDs[r] \cap Desired(r) # {}

\* C15: no handler sends an attach request with an empty ID set: every attach
\* call in the log of any operation, Create with an empty desired set
\* included, names at least one ID.
C15_NoEmptyAttach ==
    \A r \in Res : \A n \in Attaches(r) : calls[r][n].ids # {}

\* ---------------------------------------------------------------- two Updates at once
\* the member IDs the two concurrent Updates deal with
NumConcIDs == 2
ConcIDs == {IdName[n] : n \in 1..NumConcIDs}

\* both resources are in state, each with the ID set an earlier list call
\* left there; r2 is attached to the parent of r1 or to the other parent
InitConc ==
    /\ \E p \in Parents : parentID = [r \in Res |-> IF r = "r1" THEN "p1" ELSE p]
    /\ kind \in Kinds
    /\ remote \in [Parents -> SUBSET ConcIDs]
    /\ \A p \in Parents : (\A r \in Res : parentID[r] # p) => remote[p] = {}
    /\ \E stored \in [Res -> SUBSET ConcIDs] :
          state = [r \in Res |->
                     [present |-> TRUE, id |-> parentID[r], parent_id |-> parentID[r],
                      ids |-> SetValueFrom(stored[r], kind = "cluster" /\ stored[r] = {})]]
    /\ pc = [r \in Res |-> "idle"]
    /\ op = [r \in Res |-> "none"]
    /\ plan = [r \in Res |-> NullSet]
    /\ oldIDs = [r \in Res |-> {}]
    /\ toAttach = [r \in Res |-> <<>>]
    /\ toDetach = [r \in Res |-> <<>>]
    /\ diags = [r \in Res |-> ""]
    /\ calls = [r \in Res |-> <<>>]
    /\ remote0 = [r \in Res |-> {}]
    /\ prev = [r \in Res |-> NoPrev]
    /\ IdleDiff
    /\ IdleSide

\* the steps of the Update handlers of the two resources, in any interleaving
NextConc ==
    \/ \E r \in Res : UpdateFrom(r, ConcIDs)
    \/ \E r \in Res : AttachCall(r)
    \/ \E r \in Res : DetachCall(r)
    \/ \E r \in Res : Relist(r)

SpecConc == InitConc /\ [][NextConc]_vars

\* the two resources are attached to different parents
DifferentParents == parentID["r1"] # "" /\ parentID["r2"] # "" /\ parentID["r1"] # parentID["r2"]

\* the two resources are attached to the same parent
SameParent == parentID["r1"] # "" /\ parentID["r1"] = parentID["r2"]

\* the IDs whose attach or detach the API applied during the run of r
Applied(r, o) ==
    UNION {calls[r][n].ids : n \in {m \in DOMAIN calls[r] :
                                      calls[r][m].op = o /\ calls[r][m].status \in {"ok", "lost"}}}

\* C16 as stated: of two Updates running at once on different parents, each
\* one that completes without error leaves the relation of its own parent
\* equal to its own desired set, whatever it started from.
C16_ConcurrentAlwaysReachDesired ==
    DifferentParents =>
        \A r \in Res : UpdateOk(r) => remote[parentID[r]] = Desired(r)

\* C16 amended: of two Updates running at once on different parents, under
\* every interleaving, each one that completes without error and whose stored
\* ID set equalled its parent's relation when it started leaves that
\* relation equal to its own desired set; a parent's relation is at any time
\* what the calls of its own resource made of it, and every change of a
\* relation happens in a call of the resource attached to that parent.
C16_DifferentParentsDoNotInterfere ==
    /\ [](DifferentParents =>
            \A r \in Res :
                /\ (UpdateOk(r) /\ oldIDs[r] = remote0[r]) =>
                       remote[parentID[r]] = Desired(r)
                /\ pc[r] # "idle" =>
                       remote[parentID[r]] =
                           (remote0[r] \cup Applied(r, "attach")) \ Applied(r, "detach"))
    /\ [][DifferentParents =>
            \A p \in Parents :
                remote'[p] # remote[p] =>
                    \E r \in Res : /\ parentID[r] = p
                                   /\ Len(calls'[r]) = Len(calls[r]) + 1]_vars

C16_Witness ==
    /\ DifferentParents
    /\ \A r \in Res :
          /\ UpdateOk(r) /\ oldIDs[r] = remote0[r]
          /\ Attaches(r) # {} /\ Detaches(r) # {}
          /\ remote[parentID[r]] = Desired(r)
    /\ Desired("r1") # Desired("r2")

\* C17: two Updates on the same parent are not serialized: whatever the
\* handler of the other resource is doing, a handler that has not returned
\* can take its next step; when both complete without error, each from a
\* stored ID set equal to the relation at its start, the final relation holds
\* every ID both desired and no ID neither desired, and need not equal
\* either desired set (the witness is such a lost update).
C17_SameParentNotSerialized ==
    SameParent =>
        /\ \A r \in Res :
              pc[r] # "done" =>
                  ENABLED (UpdateFrom(r, ConcIDs) \/ AttachCall(r) \/ DetachCall(r) \/ Relist(r))
        /\ ((\A r \in Res : UpdateOk(r) /\ oldIDs[r] = remote0[r]) =>
               /\ Desired("r1") \cap Desired("r2") \subseteq remote[parentID["r1"]]
               /\ remote[parentID["r1"]] \subseteq Desired("r1") \cup Desired("r2"))

C17_Witness ==
    /\ SameParent
    /\ \A r \in Res : UpdateOk(r) /\ oldIDs[r] = remote0[r]
    /\ Desired("r1") # Desired("r2")
    /\ remote[parentID["r1"]] # Desired("r1")
    /\ remote[parentID["r1"]] # Desired("r2")

\* s without the repeats of its elements, first occurrences kept in order
RECURSIVE Dedup(_)
Dedup(s) ==
    IF s = <<>> THEN <<>>
    ELSE LET front == Dedup(SubSeq(s, 1, Len(s) - 1))
             last == s[Len(s)]
         IN  IF last \in Range(front) THEN front ELSE Append(front, last)

NoRepeat(s) == Len(s) = Cardinality(Range(s))

\* C18: sliceDifference treats its inputs as sets: whatever IDs repeat in a
\* or b, each returned list holds every ID at most once, the result is one
\* sliceDifference can return for the inputs with their repeats removed, and
\* every result for those inputs is one it can return for a and b.
C18_DuplicatesDoNotMatter ==
    dpc = "out" =>
        /\ NoRepeat(onlyA) /\ NoRepeat(onlyB)
        /\ <<onlyA, onlyB>> \in sliceDifference(Dedup(a), Dedup(b))
        /\ sliceDifference(Dedup(a), Dedup(b)) \subseteq sliceDifference(a, b)
        /\ Range(onlyA) = Range(Dedup(a)) \ Range(Dedup(b))
        /\ Range(onlyB) = Range(Dedup(b)) \ Range(Dedup(a))

C18_Witness ==
    /\ dpc = "out"
    /\ ~NoRepeat(a) /\ ~NoRepeat(b)
    /\ \E n, m \in DOMAIN a : n # m /\ a[n] = a[m] /\ a[n] \in Range(onlyA)
    /\ \E n, m \in DOMAIN b : n # m /\ b[n] = b[m] /\ b[n] \in Range(onlyB)
    /\ NoRepeat(onlyA) /\ NoRepeat(onlyB)

\* handler r issues a DELETE in this step for an ID the relation does not
\* hold, and the API answers it (2xx, or 404 for the missing attachment)
DetachesAbsent(r) ==
    /\ pc[r] \in {"update_detach", "delete_detach"}
    /\ Len(calls'[r]) = Len(calls[r]) + 1
    /\ Head(toDetach[r]) \notin remote[parentID[r]]
    /\ calls'[r][Len(calls'[r])].status \in {"ok", "not_found"}

\* C19: a detach of an ID that is already absent from the relation counts as
\* success: the Update or Delete that issues it reports no error for it.
C19_DetachOfAbsentSucceeds ==
    [][\A r \in Res : DetachesAbsent(r) => diags'[r] = ""]_vars

\* C20: within one operation every remote call is attempted at most once: no
\* two calls of its log are the same request, a failed call is the last call
\* of the operation, and the handler has returned after it.
C20_NoRetryNoCallAfterFailure ==
    \A r \in Res :
        /\ \A n \in DOMAIN calls[r] :
              ~calls[r][n].ok => n = Len(calls[r]) /\ pc[r] = "done"
        /\ \A m, n \in DOMAIN calls[r] :
              (m # n /\ calls[r][m].op = calls[r][n].op /\ calls[r][m].op # "list") =>
                  calls[r][m].ids # calls[r][n].ids
        /\ Cardinality(Lists(r)) <= 1

C20_Witness ==
    \E r \in Res :
        /\ pc[r] = "done" /\ diags[r] # ""
        /\ Len(calls[r]) >= 2
        /\ ~calls[r][Len(calls[r])].ok
        /\ calls[r][Len(calls[r])].op = "detach"
        /\ toDetach[r] # <<>>

\* the identifiers the text of the reported diagnostic names: the summary is
\* a fixed string and the detail is err.Error() of the failed call, which
\* holds the request URL (parent ID, and the member ID of a DELETE) only when
\* the transport failed, else the status code and the response body
DiagNames(r) ==
    IF diags[r] = "" THEN {}
    ELSE LET c == calls[r][Len(calls[r])]
         IN  IF c.status # "lost" THEN {}
             ELSE {parentID[r]} \cup (IF c.op = "detach" THEN c.ids ELSE {})

\* C21: the error reported when an attach or detach call fails names the
\* parent ID and the member ID(s) of the failing call.
C21_ErrorNamesParentAndMembers ==
    \A r \in Res :
        (pc[r] = "done" /\ diags[r] # ""
            /\ calls[r][Len(calls[r])].op \in {"attach", "detach"}) =>
            /\ parentID[r] \in DiagNames(r)
            /\ calls[r][Len(calls[r])].ids \subseteq DiagNames(r)

\* ---------------------------------------------------------------- Delete of one object
\* the resource types whose Delete removes one remote object: cluster,
\* server and taint through doJSON, the SDK server through ServersAPI
DelKinds == {"cluster", "server", "taint", "sdk_server"}

\* whether Delete reports the outcome of its DELETE request as an error
DeleteFails(k, out) ==
    IF k = "sdk_server" THEN out \notin {"ok", "not_found"} ELSE out # "ok"

\* the answers a DELETE of object id can get
DelOutcomes(id, objects) ==
    IF id \in objects THEN {"ok", "rejected", "lost"} ELSE {"not_found", "rejected"}

InitDel ==
    /\ parentID = [r \in Res |-> ""]
    /\ kind = "node_pool"
    /\ InitRes
    /\ IdleDiff
    /\ kube = Off /\ single = Off /\ client = Off
    /\ \E k \in DelKinds, i \in IDs \cup {""}, O \in SUBSET IDs :
          /\ i # "" => i \in O
          /\ del = [pc |-> "idle", kind |-> k, id |-> i, present |-> TRUE,
                    objects |-> O, diag |-> "", status |-> "none"]

\* the whole Delete handler: at most one DELETE request, then the state is
\* removed unless an error diagnostic was added
DeleteObject ==
    /\ del.pc = "idle" /\ del.present
    /\ IF del.kind # "sdk_server" /\ del.id = ""
       THEN del' = [del EXCEPT !.pc = "done", !.present = FALSE]
       ELSE \E out \in DelOutcomes(del.id, del.objects) :
               del' = [del EXCEPT
                         !.pc = "done",
                         !.status = out,
                         !.objects = IF out \in {"ok", "lost"} THEN @ \ {del.id} ELSE @,
                         !.diag = IF DeleteFails(del.kind, out) THEN "Error deleting" ELSE "",
                         !.present = DeleteFails(del.kind, out)]
    /\ UNCHANGED <<resVars, diffVars, kube, single, client>>

\* the object is deleted on the API side by somebody else
ObjectVanishes ==
    /\ del.pc = "idle" /\ del.id \in del.objects
    /\ del' = [del EXCEPT !.objects = @ \ {del.id}]
    /\ UNCHANGED <<resVars, diffVars, kube, single, client>>

NextDel == DeleteObject \/ ObjectVanishes

SpecDel == InitDel /\ [][NextDel]_vars

\* C22: a Delete of a cluster, server or taint that the API answers with 404
\* reports no error and removes the resource from state.
C22_DeleteOfGoneObjectSucceeds ==
    (del.pc = "done" /\ del.status = "not_found") =>
        del.diag = "" /\ ~del.present

\* handler r runs Read in this step
ReadStep(r) == pc[r] = "idle" /\ pc'[r] = "done" /\ op'[r] = "read"

C24_IdIsParentID ==
    /\ [](\A r \in Res :
             state[r].present =>
                 /\ state[r].id = state[r].parent_id
                 /\ state[r].parent_id = parentID[r]
                 /\ state[r].parent_id # "")
    /\ [][\A r \in Res :
             (state[r].present /\ state'[r].present) =>
                 state'[r].parent_id = state[r].parent_id]_vars

C24_Witness ==
    \E r \in Res :
        /\ UpdateOk(r) /\ Attaches(r) # {}
        /\ state[r].present
        /\ state[r].id = parentID[r]
        /\ state[r].ids.elems = remote[parentID[r]]

\* ---------------------------------------------------------------- cluster kubeconfig
\* kubeconfig documents; NoKube is the absence of one
Kubes == {"k1", "k2", "k3"}
NoKube == "none"

\* the state Read writes back after a successful GET: the model read from
\* state with only its id set again
KubeReadState_fromAPI(k) == [k EXCEPT !.id = k.cluster_id, !.kubeconfig = NoKube]

KubeReadState(k) == [k EXCEPT !.id = k.cluster_id]

\* whether Update returns before its POST
KubeUnchanged(planned, stored) == planned = stored

InitKube ==
    /\ parentID = [r \in Res |-> ""]
    /\ kind = "cluster"
    /\ InitRes
    /\ IdleDiff
    /\ del = Off /\ single = Off /\ client = Off
    /\ kube = [pc |-> "idle", present |-> FALSE, id |-> "", cluster_id |-> "",
               kubeconfig |-> NoKube, remote |-> NoKube, written |-> NoKube,
               op |-> "none", plan |-> NoKube, before |-> NoKube,
               status |-> "none", diag |-> ""]

\* a handler of the kubeconfig resource starts from the stored state
KubeStart(o, planned) ==
    [kube EXCEPT !.op = o, !.plan = planned, !.before = kube.kubeconfig,
                 !.status = "none", !.diag = ""]

KubeCreate ==
    /\ kube.pc = "idle" /\ ~kube.present
    /\ \E planned \in Kubes, out \in MutateOutcomes :
          LET k == [KubeStart("create", planned) EXCEPT
                      !.status = out,
                      !.remote = IF out \in {"ok", "lost"} THEN planned ELSE @]
          IN  kube' = IF out = "ok"
                      THEN [k EXCEPT !.present = TRUE, !.id = "p1", !.cluster_id = "p1",
                                     !.kubeconfig = planned, !.written = planned]
                      ELSE [k EXCEPT !.diag = "Error setting cluster kubeconfig"]
    /\ UNCHANGED <<resVars, diffVars, del, single, client>>

KubeRead ==
    /\ kube.pc = "idle" /\ kube.present
    /\ \E out \in ListOutcomes :
          LET k == [KubeStart("read", NoKube) EXCEPT !.status = out]
          IN  kube' = IF out = "ok"
                      THEN KubeReadState(k)
                      ELSE [k EXCEPT !.present = FALSE, !.id = "", !.cluster_id = "",
                                     !.kubeconfig = NoKube]
    /\ UNCHANGED <<resVars, diffVars, del, single, client>>

KubeUpdate ==
    /\ kube.pc = "idle" /\ kube.present
    /\ \E planned \in Kubes :
          IF KubeUnchanged(planned, kube.kubeconfig)
          THEN kube' = KubeStart("update", planned)
          ELSE \E out \in MutateOutcomes :
                  LET k == [KubeStart("update", planned) EXCEPT
                              !.status = out,
                              !.remote = IF out \in {"ok", "lost"} THEN planned ELSE @]
                  IN  kube' = IF out = "ok"
                              THEN [k EXCEPT !.id = k.cluster_id, !.kubeconfig = planned,
                                             !.written = planned]
                              ELSE [k EXCEPT !.diag = "Error updating cluster kubeconfig"]
    /\ UNCHANGED <<resVars, diffVars, del, single, client>>

KubeDelete ==
    /\ kube.pc = "idle" /\ kube.present
    /\ \E out \in MutateOutcomes :
          LET k == [KubeStart("delete", NoKube) EXCEPT
                      !.status = out,
                      !.remote = IF out \in {"ok", "lost"} THEN NoKube ELSE @]
          IN  kube' = IF out = "ok"
                      THEN [k EXCEPT !.present = FALSE, !.id = "", !.cluster_id = "",
                                     !.kubeconfig = NoKube]
                      ELSE [k EXCEPT !.diag = "Error clearing cluster kubeconfig"]
    /\ UNCHANGED <<resVars, diffVars, del, single, client>>

NextKube == KubeCreate \/ KubeRead \/ KubeUpdate \/ KubeDelete

SpecKube == InitKube /\ [][NextKube]_vars

C26_DeleteDetachesEachStoredID ==
    /\ [](\A r \in Res :
             op[r] = "delete" =>
                 /\ \A n \in DOMAIN calls[r] :
                       /\ calls[r][n].op = "detach"
                       /\ Cardinality(calls[r][n].ids) = 1
                       /\ ~calls[r][n].ok =>
                             /\ n = Len(calls[r]) /\ pc[r] = "done"
                             /\ diags[r] # "" /\ state[r].present
                 /\ \A m, n \in DOMAIN calls[r] : calls[r][m].ids = calls[r][n].ids => m = n
                 /\ state[r].present =>
                       UNION {calls[r][n].ids : n \in DOMAIN calls[r]}
                           \cup Range(toDetach[r]) = state[r].ids.elems
                 /\ ~state[r].present =>
                       /\ pc[r] = "done" /\ diags[r] = "" /\ toDetach[r] = <<>>
                       /\ \A n \in DOMAIN calls[r] : calls[r][n].ok
                 /\ (pc[r] = "done" /\ diags[r] = "") => ~state[r].present)
    /\ [][\A r \in Res :
             (op'[r] = "delete" /\ state'[r].present) => state'[r] = state[r]]_vars

C26_Witness ==
    \E r \in Res :
        /\ op[r] = "delete" /\ pc[r] = "done" /\ diags[r] # ""
        /\ Len(calls[r]) >= 2 /\ calls[r][1].ok
        /\ state[r].present
        /\ calls[r][1].ids \subseteq state[r].ids.elems
        /\ calls[r][1].ids \cap remote[parentID[r]] = {}
        /\ toDetach[r] # <<>>

\* C27: when a remote call of Create or Update fails (attach, detach or the
\* final re-list) the operation writes nothing to state: the stored state
\* stays as it was before the operation, even when earlier calls of the
\* operation changed the remote relation; state is written only by the step
\* in which the final re-list succeeds.
C27_FailureWritesNoState ==
    [][\A r \in Res :
          op'[r] \in {"create", "update"} =>
              /\ (diags'[r] # "" => state'[r] = state[r])
              /\ (state'[r] # state[r] =>
                     /\ pc[r] = "relist" /\ pc'[r] = "done" /\ diags'[r] = ""
                     /\ \A n \in DOMAIN calls'[r] : calls'[r][n].ok)]_vars

C27_Witness ==
    \E r \in Res :
        /\ op[r] = "update" /\ pc[r] = "done" /\ diags[r] # ""
        /\ Len(calls[r]) >= 2 /\ calls[r][1].ok
        /\ remote[parentID[r]] # remote0[r]
        /\ state[r].present /\ state[r].ids.elems = oldIDs[r]
        /\ oldIDs[r] = remote0[r]

\* C28: Create only attaches: it issues no list before its attach call(s)
\* and no detach call, so the IDs that were attached to the parent already
\* and are not in the plan stay attached, and the state a successful Create
\* writes holds them next to the planned IDs.
C28_CreateOnlyAttaches ==
    \A r \in Res :
        op[r] = "create" =>
            /\ Detaches(r) = {}
            /\ \A n \in Lists(r) : n = Len(calls[r]) /\ pc[r] = "done"
            /\ \A n \in Attaches(r) : calls[r][n].ids \subseteq Desired(r)
            /\ remote0[r] \subseteq remote[parentID[r]]
            /\ (pc[r] = "done" /\ diags[r] = "") =>
                  /\ state[r].present
                  /\ state[r].ids.elems = remote0[r] \cup Desired(r)
                  /\ remote[parentID[r]] = remote0[r] \cup Desired(r)

C28_Witness ==
    \E r \in Res :
        /\ op[r] = "create" /\ pc[r] = "done" /\ diags[r] = ""
        /\ Desired(r) # {}
        /\ remote0[r] \ Desired(r) # {}
        /\ Desired(r) \ remote0[r] # {}
        /\ state[r].ids.elems # Desired(r)

\* ---------------------------------------------------------------- single-valued cluster attachments
\* captain domain, control-plane record set, apps load balancer, GlueOps
\* load balancer and bastion: one attached ID per cluster, or NoValue
NoValue == ""

\* whether Update returns before its POST
SingleUnchanged_never(planned, stored) == FALSE

SingleUnchanged(planned, stored) == planned = stored

\* the model Update stores after a successful POST
SingleStored(s, planned) == [s EXCEPT !.value = planned, !.id = s.cluster_id]

InitSingle ==
    /\ parentID = [r \in Res |-> ""]
    /\ kind = "cluster"
    /\ InitRes
    /\ IdleDiff
    /\ del = Off /\ kube = Off /\ client = Off
    /\ \E v \in IDs \cup {NoValue} :
          single = [pc |-> "idle", present |-> FALSE, id |-> "", cluster_id |-> "",
                    value |-> NoValue, remote |-> v, op |-> "none", plan |-> NoValue,
                    before |-> NoValue, posts |-> <<>>, status |-> "none", diag |-> ""]

\* a handler of the attachment starts from the stored state
SingleStart(o, planned) ==
    [single EXCEPT !.op = o, !.plan = planned, !.before = single.value,
                   !.posts = <<>>, !.status = "none", !.diag = ""]

SingleGone(s) ==
    [s EXCEPT !.present = FALSE, !.id = "", !.cluster_id = "", !.value = NoValue]

SingleCreate ==
    /\ single.pc = "idle" /\ ~single.present
    /\ \E planned \in IDs, out \in MutateOutcomes :
          LET s == [SingleStart("create", planned) EXCEPT
                      !.status = out,
                      !.posts = <<planned>>,
                      !.remote = IF out \in {"ok", "lost"} THEN planned ELSE @]
          IN  single' = IF out = "ok"
                        THEN [s EXCEPT !.present = TRUE, !.id = "p1", !.cluster_id = "p1",
                                       !.value = planned]
                        ELSE [s EXCEPT !.diag = "Error attaching"]
    /\ UNCHANGED <<resVars, diffVars, del, kube, client>>

SingleRead ==
    /\ single.pc = "idle" /\ single.present
    /\ \E out \in ListOutcomes :
          LET s == [SingleStart("read", NoValue) EXCEPT !.status = out]
          IN  single' = IF out = "ok" /\ s.remote # NoValue
                        THEN [s EXCEPT !.id = s.cluster_id, !.value = s.remote]
                        ELSE SingleGone(s)
    /\ UNCHANGED <<resVars, diffVars, del, kube, client>>

SingleUpdate ==
    /\ single.pc = "idle" /\ single.present
    /\ \E planned \in IDs :
          IF SingleUnchanged(planned, single.value)
          THEN single' = SingleStart("update", planned)
          ELSE \E out \in MutateOutcomes :
                  LET s == [SingleStart("update", planned) EXCEPT
                              !.status = out,
                              !.posts = <<planned>>,
                              !.remote = IF out \in {"ok", "lost"} THEN planned ELSE @]
                  IN  single' = IF out = "ok"
                                THEN SingleStored(s, planned)
                                ELSE [s EXCEPT !.diag = "Error updating"]
    /\ UNCHANGED <<resVars, diffVars, del, kube, client>>

SingleDelete ==
    /\ single.pc = "idle" /\ single.present
    /\ \E out \in MutateOutcomes :
          LET s == [SingleStart("delete", NoValue) EXCEPT
                      !.status = out,
                      !.remote = IF out \in {"ok", "lost"} THEN NoValue ELSE @]
          IN  single' = IF out = "ok" THEN SingleGone(s)
                        ELSE [s EXCEPT !.diag = "Error detaching"]
    /\ UNCHANGED <<resVars, diffVars, del, kube, client>>

NextSingle == SingleCreate \/ SingleRead \/ SingleUpdate \/ SingleDelete

SpecSingle == InitSingle /\ [][NextSingle]_vars

\* C29: Update of a single-valued cluster attachment issues no remote call
\* and leaves state as it was when the planned value equals the stored one;
\* otherwise it issues exactly one POST carrying the planned value and, when
\* the POST succeeds, stores the planned value with id = cluster_id (when it
\* fails, state stays as it was).
C29_SingleUpdate ==
    single.op = "update" =>
        /\ single.present /\ single.cluster_id # ""
        /\ single.plan = single.before =>
              /\ single.posts = <<>> /\ single.status = "none"
              /\ single.value = single.before /\ single.diag = ""
        /\ single.plan # single.before =>
              /\ single.posts = <<single.plan>>
              /\ single.status # "none"
              /\ single.status = "ok" =>
                    /\ single.value = single.plan
                    /\ single.id = single.cluster_id
                    /\ single.diag = ""
              /\ single.status # "ok" =>
                    /\ single.value = single.before
                    /\ single.diag # ""

C29_Witness ==
    /\ single.op = "update" /\ single.status = "ok"
    /\ single.plan # single.before
    /\ single.value = single.plan
    /\ single.remote = single.plan

\* ---------------------------------------------------------------- newAutoglueClient
\* configuration strings as sequences of characters
Blank == " "
CfgStrings == {<<>>, <<Blank>>, <<"k">>, <<Blank, "k", Blank>>}

\* strings.TrimSpace
RECURSIVE TrimLeft(_)
TrimLeft(s) == IF s # <<>> /\ Head(s) = Blank THEN TrimLeft(Tail(s)) ELSE s

RECURSIVE TrimRight(_)
TrimRight(s) ==
    IF s # <<>> /\ s[Len(s)] = Blank THEN TrimRight(SubSeq(s, 1, Len(s) - 1)) ELSE s

TrimSpace_none(s) == s

TrimSpace(s) == TrimRight(TrimLeft(s))

\* newAutoglueClient: the error it returns ("" for none) and the client
newAutoglueClient(cfg) ==
    LET orgID == TrimSpace(cfg.OrgID)
        apiKey == TrimSpace(cfg.APIKey)
        orgKey == TrimSpace(cfg.OrgKey)
        orgSecret == TrimSpace(cfg.OrgSecret)
        bearerToken == TrimSpace(cfg.BearerToken)
        hasOrgKey == orgKey # <<>>
        hasOrgSecret == orgSecret # <<>>
        hasOrgCreds == hasOrgKey
        hasAPIKey == apiKey # <<>>
        hasBearer == bearerToken # <<>>
        needsOrgID == hasAPIKey \/ hasBearer
        c == [orgID |-> orgID, apiKey |-> apiKey, orgKey |-> orgKey,
              orgSecret |-> orgSecret, bearerToken |-> bearerToken,
              sendOrgHeader |-> needsOrgID]
    IN  IF hasOrgKey # hasOrgSecret
        THEN [err |-> "both org_key and org_secret must be configured together", c |-> Off]
        ELSE IF ~hasAPIKey /\ ~hasOrgCreds /\ ~hasBearer
        THEN [err |-> "one of api_key, (org_key + org_secret), or bearer_token must be configured",
              c |-> Off]
        ELSE IF needsOrgID /\ orgID = <<>>
        THEN [err |-> "org_id must be configured when using api_key or bearer_token", c |-> Off]
        ELSE [err |-> "", c |-> c]

\* the headers doJSON sets on a request of client c
RequestHeaders(c) ==
    {"Accept"}
        \cup (IF c.sendOrgHeader THEN {"X-Org-ID"} ELSE {})
        \cup (IF c.apiKey # <<>> THEN {"X-API-KEY"} ELSE {})
        \cup (IF c.orgKey # <<>> THEN {"X-ORG-KEY"} ELSE {})
        \cup (IF c.orgSecret # <<>> THEN {"X-ORG-SECRET"} ELSE {})
        \cup (IF c.bearerToken # <<>> THEN {"Authorization"} ELSE {})

InitClient ==
    /\ parentID = [r \in Res |-> ""]
    /\ kind = "node_pool"
    /\ InitRes
    /\ IdleDiff
    /\ del = Off /\ kube = Off /\ single = Off
    /\ \E cfg \in [{"OrgID", "APIKey", "OrgKey", "OrgSecret", "BearerToken"} -> CfgStrings] :
          client = [pc |-> "cfg", cfg |-> cfg, err |-> "", c |-> Off, headers |-> {}]

\* the provider builds its client from the configuration
BuildClient ==
    /\ client.pc = "cfg"
    /\ LET res == newAutoglueClient(client.cfg)
       IN  client' = [client EXCEPT !.pc = IF res.err = "" THEN "built" ELSE "failed",
                                    !.err = res.err, !.c = res.c]
    /\ UNCHANGED <<resVars, diffVars, del, kube, single>>

\* a resource handler sends a request through the client
SendRequest ==
    /\ client.pc = "built"
    /\ client' = [client EXCEPT !.pc = "sent", !.headers = RequestHeaders(client.c)]
    /\ UNCHANGED <<resVars, diffVars, del, kube, single>>

NextClient == BuildClient \/ SendRequest

SpecClient == InitClient /\ [][NextClient]_vars

\* a configuration string is set: something but white space is in it
IsSet(s) == \E n \in DOMAIN s : s[n] # Blank

\* C30: newAutoglueClient succeeds exactly when, white space aside, org_key
\* and org_secret are both set or both unset, at least one of api_key,
\* (org_key + org_secret) or bearer_token is set, and org_id is set whenever
\* api_key or bearer_token is; a request carries the X-Org-ID header exactly
\* when api_key or bearer_token is set.
C30_ClientValidation ==
    LET cfg == client.cfg
        paired == IsSet(cfg.OrgKey) <=> IsSet(cfg.OrgSecret)
        someAuth == IsSet(cfg.APIKey) \/ IsSet(cfg.OrgKey) \/ IsSet(cfg.BearerToken)
        needsOrg == IsSet(cfg.APIKey) \/ IsSet(cfg.BearerToken)
    IN  /\ client.pc \in {"built", "failed", "sent"} =>
              ((client.pc # "failed" /\ client.err = "")
                  <=> (paired /\ someAuth /\ (needsOrg => IsSet(cfg.OrgID))))
        /\ client.pc = "sent" => ("X-Org-ID" \in client.headers <=> needsOrg)

C30_Witness ==
    /\ client.pc = "sent"
    /\ client.cfg.OrgKey = <<Blank>> /\ client.cfg.OrgSecret = <<>>
    /\ client.cfg.APIKey = <<Blank, "k", Blank>>
    /\ "X-Org-ID" \in client.headers
    /\ client.c.apiKey = <<"k">>

====
